---- MODULE Spec2Model ----
(***************************************************************************)
(* A model of integrationtest/devicefarm/automate_device_farm.py: the      *)
(* sequential script that uploads an application and a test package to     *)
(* Device Farm, schedules a run, polls it, downloads the artifacts of the  *)
(* run and writes path.yaml.  The remote service and the HTTP transport    *)
(* are the environment: every answer they can give is a nondeterministic   *)
(* choice of the action that issues the request.                           *)
(*                                                                         *)
(*   Spec      the whole script                                            *)
(*   FairSpec  the script up to the end of the run polling, with the       *)
(*             fairness of a sequential process                            *)
(*   SpecZip   unzip_and_copy alone, on every report of a bounded length   *)
(***************************************************************************)
EXTENDS Integers, Sequences, FiniteSets, TLC

VARIABLES
    pc,             \* position of the script
    which,          \* 1: the application upload, 2: the test package upload
    response,       \* upload_df_file: the upload record last received
    upload_arn,     \* upload_df_file: arn of the upload in progress
    arns,           \* our_upload_arn (1) and our_test_package_arn (2)
    observed,       \* per upload: the status the loop of upload_df_file saw last
    seen_failed,    \* whether that loop has seen an upload FAILED
    run_request,    \* the appArn / testPackageArn sent with schedule_run
    run_arn,        \* response['run']['arn']
    state,          \* last response['run']['status'] of the polling loop
    error,          \* the exception raised and not caught, if any
    caught,         \* the exception caught by the handler of the polling loop
    exit_code,      \* exit code of the process once it has ended
    cnt,            \* per request outside the polling loops: times issued
    after_failed,   \* operations issued after an upload was seen FAILED or an
                    \* exception went uncaught
    after_run_exc,  \* operations issued after get_run raised
    jobs,           \* download_artifacts: number of jobs still to visit
    job_name,       \* download_artifacts: name of the job being visited
    suites,         \* number of suites of the job still to visit
    suite_name,     \* name of the suite visited last (the loop variable suite)
    tests,          \* number of tests of the suite still to visit
    types,          \* artifact types of the test still to list
    artifacts,      \* number of artifacts of the listing still to visit
    test_no,        \* number of tests visited so far
    is_valid_test,  \* the validity flag
    logcat_paths,   \* the log-path list
    encounters,     \* the .logcat artifacts visited, each with the flag at that time
    visited,        \* the <<job, extension>> of every artifact visited
    zip_invalid,    \* whether a zip of the test being visited was reported invalid
    files,          \* local paths written by downloads
    bad_files,      \* those of them that do not hold the artifact
    dirs,           \* job directories created
    report_in,      \* the junitreport.xml extracted last from a zip of the
                    \* listing in hand (<<>>: none yet), as the zip holds it
    reports,        \* report/ directory: <<file name, content>> of each file
    path_yaml,      \* path.yaml: how often it was written, and its content
    budget          \* what the remote service may still list (bounds the run)

vars == <<pc, which, response, upload_arn, arns, observed, seen_failed,
          run_request, run_arn, state, error, caught, exit_code, cnt,
          after_failed, after_run_exc, jobs, job_name, suites, tests, test_no,
          types, artifacts, is_valid_test, logcat_paths, encounters, visited,
          zip_invalid, files, dirs, report_in, reports, path_yaml, budget,
          suite_name, bad_files>>

uploadVars == <<which, response, upload_arn, arns, observed, seen_failed>>
runVars == <<run_request, run_arn, state, caught>>
downloadVars == <<jobs, job_name, suites, tests, test_no, types, artifacts,
                  is_valid_test, logcat_paths, encounters, visited, zip_invalid,
                  files, dirs, report_in, reports, budget, suite_name,
                  bad_files>>

----------------------------------------------------------------------------
(* Bounds of the model.                                                    *)

\* Saturation point of the call counters.
MaxCnt == 2
\* Jobs, suites, tests and artifacts the remote service lists in one run.
MaxJobs == 2
MaxSuites == 2
MaxTests == 2
MaxArtifacts == 3
\* Length of the report contents unzip_and_copy is checked on.
MaxLen == 4

NoValue == "none"

Min(a, b) == IF a < b THEN a ELSE b

----------------------------------------------------------------------------
(* Exceptions.  An exception is a record: its class and what it carries.   *)

NoError == [kind |-> "none", text |-> ""]
\* An error of the remote service or of the transport (botocore, requests).
RemoteError(op) == [kind |-> "RemoteError", text |-> op]

(* What the remote service can answer.                                     *)

UploadStatuses == {"INITIALIZED", "PROCESSING", "SUCCEEDED", "FAILED"}
\* 'message' and 'metadata' are optional members of an upload record.
UploadRecords == [status : UploadStatuses,
                  message : {NoValue, "msg"},
                  metadata : {NoValue, "meta"}]
NoRecord == [status |-> NoValue, message |-> NoValue, metadata |-> NoValue]
\* The service numbers the uploads it creates.
UploadArn(n) == IF n = 1 THEN "upload:1" ELSE "upload:2"
RunArns == {"run:1"}
RunStatuses == {"PENDING", "RUNNING", "STOPPING", "COMPLETED", "ERRORED"}

(* Bookkeeping of the requests issued.                                     *)

\* The requests that are counted; the polls are not (they are unbounded).
Counted == {<<"create_upload", 1>>, <<"create_upload", 2>>,
            <<"put", 1>>, <<"put", 2>>,
            <<"schedule_run", 0>>, <<"stop_run", 0>>, <<"list_jobs", 0>>}

\* Issue request op (for upload f, 0 if it is for none).
Issue(op, f) ==
    /\ cnt' = IF <<op, f>> \in Counted
              THEN [cnt EXCEPT ![<<op, f>>] = Min(@ + 1, MaxCnt)]
              ELSE cnt
    /\ after_failed' = IF seen_failed \/ error # NoError
                       THEN after_failed \cup {op} ELSE after_failed
    /\ after_run_exc' = IF caught # NoError THEN after_run_exc \cup {op}
                        ELSE after_run_exc

NoIssue == UNCHANGED <<cnt, after_failed, after_run_exc>>

\* An exception nobody catches ends the interpreter with exit code 1.
Uncaught(e) ==
    /\ pc' = "uncaught"
    /\ error' = e
    /\ exit_code' = 1

----------------------------------------------------------------------------
(* upload_df_file                                                          *)

\* A bug: FAILED is not told from a status still in progress.
UploadFailedNever(status) == FALSE
\* line 107
UploadFailed(status) == status = "FAILED"
\* A bug: an upload still PROCESSING passes for a finished one.
UploadSucceededEarly(status) == status \in {"SUCCEEDED", "PROCESSING"}
\* line 110
UploadSucceeded(status) == status = "SUCCEEDED"

\* lines 108-109: the exception of a FAILED upload.  Reading the absent
\* member 'metadata' raises KeyError before the Exception is built.
UploadFailure(upload) ==
    IF upload.message # NoValue
    THEN [kind |-> "Exception", text |-> upload.message]
    ELSE IF upload.metadata # NoValue
         THEN [kind |-> "Exception", text |-> upload.metadata]
         ELSE [kind |-> "KeyError", text |-> "metadata"]

\* lines 88-96: create_upload and the members read from its response.
CreateUpload ==
    /\ pc = "create_upload"
    /\ Issue("create_upload", which)
    /\ \/ /\ Uncaught(RemoteError("create_upload"))
          /\ UNCHANGED <<response, upload_arn>>
       \/ \E upload \in UploadRecords :
             /\ response' = upload
             /\ upload_arn' = UploadArn(IF arns[1] = NoValue THEN 1 ELSE 2)
             /\ pc' = "put"
             /\ UNCHANGED <<error, exit_code>>
    /\ UNCHANGED <<which, arns, observed, seen_failed, runVars, downloadVars,
                   path_yaml>>

\* A bug: a refused PUT is sent again.
PutRefusedRetries ==
    /\ pc' = "put"
    /\ UNCHANGED <<error, exit_code>>
\* lines 101-102: the answer to the PUT is not ok.
PutRefused == Uncaught([kind |-> "Exception", text |-> "Couldn't upload"])

\* lines 97-102: the HTTP PUT of the file to the signed URL.
PutFile ==
    /\ pc = "put"
    /\ Issue("put", which)
    /\ \/ Uncaught(RemoteError("put"))
       \/ PutRefused
       \/ /\ pc' = "upload_check"
          /\ UNCHANGED <<error, exit_code>>
    /\ UNCHANGED <<uploadVars, runVars, downloadVars, path_yaml>>

\* Where upload_and_test_android goes on when upload_df_file returns
\* (lines 41-45).
AfterUpload(f) == IF f = 1 THEN "create_upload" ELSE "schedule_run"

\* lines 105-111: one look at the status of the response in hand.
UploadCheck ==
    /\ pc = "upload_check"
    /\ observed' = [observed EXCEPT ![which] = response.status]
    /\ seen_failed' = (seen_failed \/ response.status = "FAILED")
    /\ IF UploadFailed(response.status)
       THEN /\ Uncaught(UploadFailure(response))
            /\ UNCHANGED <<which, arns, response, upload_arn>>
       ELSE IF UploadSucceeded(response.status)
       THEN \* line 115: return upload_arn; the locals are gone
            /\ arns' = [arns EXCEPT ![which] = upload_arn]
            /\ pc' = AfterUpload(which)
            /\ which' = IF which = 1 THEN 2 ELSE which
            /\ response' = NoRecord
            /\ upload_arn' = NoValue
            /\ UNCHANGED <<error, exit_code>>
       ELSE /\ pc' = "upload_sleep"
            /\ UNCHANGED <<which, arns, response, upload_arn, error, exit_code>>
    /\ NoIssue
    /\ UNCHANGED <<runVars, downloadVars, path_yaml>>

\* lines 112-113: sleep, then get_upload.
GetUpload ==
    /\ pc = "upload_sleep"
    /\ Issue("get_upload", which)
    /\ \/ /\ Uncaught(RemoteError("get_upload"))
          /\ UNCHANGED response
       \/ \E upload \in UploadRecords :
             /\ response' = upload
             /\ pc' = "upload_check"
             /\ UNCHANGED <<error, exit_code>>
    /\ UNCHANGED <<which, upload_arn, arns, observed, seen_failed, runVars,
                   downloadVars, path_yaml>>

----------------------------------------------------------------------------
(* upload_and_test_android: the run                                        *)

\* lines 45-56: schedule_run with the two arns returned by upload_df_file.
RunRequest(app, package) == [appArn |-> app, testPackageArn |-> package]
NoRequest == RunRequest(NoValue, NoValue)

ScheduleRun ==
    /\ pc = "schedule_run"
    /\ Issue("schedule_run", 0)
    /\ run_request' = RunRequest(arns[1], arns[2])
    /\ \/ /\ Uncaught(RemoteError("schedule_run"))
          /\ UNCHANGED run_arn
       \/ \E arn \in RunArns :
             /\ run_arn' = arn
             /\ pc' = "get_run"
             /\ UNCHANGED <<error, exit_code>>
    /\ UNCHANGED <<uploadVars, state, caught, downloadVars, path_yaml>>

\* A bug: a run that is being stopped passes for a finished one.
RunFinishedOrStopping(status) == status \in {"COMPLETED", "ERRORED", "STOPPING"}
\* A bug: a run that ended ERRORED is polled on.
RunFinishedOnlyCompleted(status) == status = "COMPLETED"
\* line 64
RunFinished(status) == status = "COMPLETED" \/ status = "ERRORED"

\* A bug: the handler prints the exception and the script goes on.
ExceptHandlerGoesOn == "list_jobs"
\* lines 69-72: the handler of the polling loop.
ExceptHandler == "stop_run"

\* A bug: the handler leaves with exit(0).
ExitStatusZero == 1 - 1
\* line 73
ExitStatus == 1

\* A bug: the run is stopped when it has finished too.
AfterRunFinishedStops == "stop_run"
\* lines 64-65, 76: break out of the loop, to list_jobs.
AfterRunFinished == "list_jobs"

\* A bug: the loop gives up after one sleep.
AfterRunSleepGivesUp == "list_jobs"
\* lines 61, 68: after the sleep the loop queries again.
AfterRunSleep == "get_run"

\* lines 62-68: one get_run and the test of its status.
GetRun ==
    /\ pc = "get_run"
    /\ Issue("get_run", 0)
    /\ \/ /\ caught' = RemoteError("get_run")
          /\ pc' = ExceptHandler
          /\ UNCHANGED state
       \/ \E status \in RunStatuses :
             /\ state' = status
             /\ pc' = IF RunFinished(status) THEN AfterRunFinished
                                                 ELSE "run_sleep"
             /\ UNCHANGED caught
    /\ UNCHANGED <<uploadVars, run_request, run_arn, error, exit_code,
                   downloadVars, path_yaml>>

\* line 68: time.sleep(10), then the loop again.
RunSleep ==
    /\ pc = "run_sleep"
    /\ pc' = AfterRunSleep
    /\ NoIssue
    /\ UNCHANGED <<uploadVars, runVars, error, exit_code, downloadVars, path_yaml>>

\* lines 72-73: stop_run, then exit(1).  stop_run is not guarded: if it
\* raises, the exception is not caught.
StopRun ==
    /\ pc = "stop_run"
    /\ Issue("stop_run", 0)
    /\ \/ Uncaught(RemoteError("stop_run"))
       \/ /\ pc' = "exited"
          /\ exit_code' = ExitStatus
          /\ UNCHANGED error
    /\ UNCHANGED <<uploadVars, runVars, downloadVars, path_yaml>>

----------------------------------------------------------------------------
(* Text.  A file or a text is a sequence of tokens; each token stands for  *)
(* the bytes or the string it spells.  No token spells a part of           *)
(* TestShopping or of skipped="2", so a literal occurs in the spelled      *)
(* string exactly where its token occurs in the sequence.                  *)

TestName == "TestShopping"
SkipMark == "skipped=\"2\""
Blank == " "
CR == "\r"
LF == "\n"
\* A byte that no UTF-8 text holds.
NotUtf8 == "0xFF"
Alphabet == {TestName, "Cart", Blank, SkipMark, CR, LF, NotUtf8}

\* line 172: open(result_path, 'r', encoding='utf-8'); whether line 173
\* can decode the file.
IsUtf8(file) == \A i \in 1..Len(file) : file[i] # NotUtf8

\* line 173: file.read() of a file opened in text mode: every CR LF and
\* every CR alone comes out as one LF.
RECURSIVE ReadFrom(_, _)
ReadFrom(file, i) ==
    IF i > Len(file) THEN <<>>
    ELSE IF file[i] = CR
         THEN <<LF>> \o ReadFrom(file, IF i < Len(file) /\ file[i + 1] = LF
                                       THEN i + 2 ELSE i + 1)
         ELSE <<file[i]>> \o ReadFrom(file, i + 1)

read(file) == ReadFrom(file, 1)

\* Whether the first / the last character of a token is a word character
\* (\w).  skipped="2" begins with a letter and ends with a quote.
StartsWord(tok) == tok \notin {Blank, CR, LF, NotUtf8}
EndsWord(tok) == tok \notin {Blank, SkipMark, CR, LF, NotUtf8}

\* content.__contains__(literal)
Contains(content, literal) == \E i \in 1..Len(content) : content[i] = literal

\* A bug: every TestShopping is replaced (str.replace), whole word or not.
MatchAtAnywhere(content, i) == content[i] = TestName
\* Whether \bTestShopping\b matches at token i of content.
MatchAt(content, i) ==
    /\ content[i] = TestName
    /\ (i = 1 \/ ~EndsWord(content[i - 1]))
    /\ (i = Len(content) \/ ~StartsWord(content[i + 1]))

RECURSIVE SubFrom(_, _, _)
SubFrom(content, repl, i) ==
    IF i > Len(content) THEN <<>>
    ELSE (IF MatchAt(content, i) THEN repl ELSE <<content[i]>>)
         \o SubFrom(content, repl, i + 1)

\* line 174: re.sub(r'\bTestShopping\b', repl, content).  The replacement
\* is taken as it stands: no device name of the model holds a backslash.
\* Line 176 writes the text back with LF for its line ends (os.linesep of
\* the POSIX hosts the script runs on).
re_sub(repl, content) == SubFrom(content, repl, 1)

SeqsUpTo(S, n) == UNION {[1..k -> S] : k \in 0..n}

----------------------------------------------------------------------------
(* unzip_and_copy                                                          *)

\* A bug: the test reads the text after the substitution.
ZipResultOfModified(content, modified_content) ==
    ~Contains(modified_content, SkipMark)
\* lines 177-179: the result, from the content as read at line 173.
ZipResult(content, modified_content) == ~Contains(content, SkipMark)

\* The exception of line 173 on a file that is not UTF-8.
DecodeError == "UnicodeDecodeError"

\* lines 165-169: name of the report in report/
ReportName(device_name) == <<device_name, " appium junitreport.xml">>

\* lines 169-179, for a zip that holds the report file: what report/ holds
\* of it in the end, and the value returned or the exception raised.  A
\* file that cannot be decoded stays as line 169 copied it.
unzip_and_copy(file, device_name) ==
    IF ~IsUtf8(file)
    THEN [error |-> DecodeError, written |-> file]
    ELSE LET content == read(file)
             modified_content ==
                 re_sub(<<"AppiumTest", Blank, device_name>>, content)
         IN  [error |-> NoValue,
              written |-> modified_content,
              result |-> ZipResult(content, modified_content)]

\* lines 165-176: the report lands in report/, replacing one of that name.
WriteReport(dir, device_name, text) ==
    {r \in dir : r[1] # ReportName(device_name)}
        \cup {<<ReportName(device_name), text>>}

----------------------------------------------------------------------------
(* download_artifacts                                                      *)

JobNames == {"Pixel", "Galaxy"}
SuiteNames == {"Tests Suite", "Setup Suite"}
ArtifactTypes == <<"FILE", "SCREENSHOT", "LOG">>

Artifact(type, name, extension, has_report, report) ==
    [type |-> type, name |-> name, extension |-> extension,
     has_report |-> has_report, report |-> report]

\* The reports a zip of the run may hold.
ZipReports == {<<SkipMark>>, <<TestName>>, <<NotUtf8>>}

\* The artifacts the remote service may list.
RemoteArtifacts ==
    {Artifact("DEVICE_LOG", "Logcat", "logcat", FALSE, <<>>),
     Artifact("VIDEO", "Video", "mp4", FALSE, <<>>),
     Artifact("CUSTOMER_ARTIFACT", "Customer Artifacts", "zip", FALSE, <<>>)}
    \cup {Artifact("CUSTOMER_ARTIFACT", "Customer Artifacts", "zip", TRUE, r) :
            r \in ZipReports}

\* line 139
Filename(artifact) ==
    <<artifact.type, "_", artifact.name, ".", artifact.extension>>

\* str.endswith
EndsWith(text, suffix) ==
    /\ Len(text) >= Len(suffix)
    /\ SubSeq(text, Len(text) - Len(suffix) + 1, Len(text)) = suffix

IsLogcat(filename) == EndsWith(filename, <<".", "logcat">>)
IsZip(filename) == EndsWith(filename, <<".", "zip">>)

\* A bug: every artifact is downloaded.
IsWantedAlways(filename) == TRUE
\* line 140
IsWanted(filename) == IsLogcat(filename) \/ IsZip(filename)

\* A bug: the flag is not consulted.
IsRecordedWhateverFlag(valid, filename) == IsLogcat(filename)
\* line 142
IsRecorded(valid, filename) == valid /\ IsLogcat(filename)

\* lines 137, 141: os.path.join(save_path, job_name, filename)
SavePath(job, filename) == <<job>> \o filename

\* A bug: the flag is set once and kept from listing to listing.
FlagAtListingKept(flag) == flag
\* line 135: the flag a listing of artifacts starts with.
FlagAtListing(flag) == TRUE

\* A bug: one invalid zip keeps the flag down for the rest of the listing.
FlagAfterZipAccumulated(flag, result) == flag /\ result
\* line 149: the flag takes the result of unzip_and_copy.
FlagAfterZip(flag, result) == result

\* lines 76-81: list_jobs, then download_artifacts begins (line 119).
ListJobs ==
    /\ pc = "list_jobs"
    /\ Issue("list_jobs", 0)
    /\ \/ /\ Uncaught(RemoteError("list_jobs"))
          /\ UNCHANGED <<jobs, logcat_paths>>
       \/ \E n \in 0..MaxJobs :
             /\ jobs' = n
             /\ logcat_paths' = <<>>
             /\ pc' = "next_job"
             /\ UNCHANGED <<error, exit_code>>
    /\ UNCHANGED <<uploadVars, runVars, job_name, suites, tests, test_no, types,
                   artifacts, is_valid_test, encounters, visited, zip_invalid,
                   files, dirs, report_in, reports, budget, path_yaml,
                   suite_name, bad_files>>

\* lines 120-125: the next job, its directory and its suites; line 151
\* when there is none.  Jobs and suites are drawn when they are visited,
\* as the artifacts are.
NextJob ==
    /\ pc = "next_job"
    /\ IF jobs = 0
       THEN /\ pc' = "save"
            /\ NoIssue
            /\ UNCHANGED <<jobs, job_name, dirs, suites, budget, error, exit_code>>
       ELSE \E job \in JobNames :
            /\ job_name' = job
            /\ jobs' = jobs - 1
            /\ dirs' = dirs \cup {job}
            /\ Issue("list_suites", 0)
            /\ \/ /\ Uncaught(RemoteError("list_suites"))
                  /\ UNCHANGED <<suites, budget>>
               \/ \E n \in 0..budget.suites :
                     /\ suites' = n
                     /\ budget' = [budget EXCEPT !.suites = @ - n]
                     /\ pc' = "next_suite"
                     /\ UNCHANGED <<error, exit_code>>
    /\ UNCHANGED <<uploadVars, runVars, tests, test_no, types, artifacts,
                   is_valid_test, logcat_paths, encounters, visited, zip_invalid,
                   files, report_in, reports, path_yaml, suite_name, bad_files>>

\* A bug: the tests of every suite are listed.
IsTestsSuiteAlways(name) == TRUE
\* line 127
IsTestsSuite(name) == name = "Tests Suite"

\* lines 126-128: the next suite and, if it is the tests suite, its tests.
NextSuite ==
    /\ pc = "next_suite"
    /\ IF suites = 0
       THEN /\ pc' = "next_job"
            /\ NoIssue
            /\ UNCHANGED <<suites, suite_name, tests, budget, error, exit_code>>
       ELSE \E suite \in SuiteNames :
            /\ suites' = suites - 1
            /\ suite_name' = suite
            /\ IF IsTestsSuite(suite)
               THEN /\ Issue("list_tests", 0)
                    /\ \/ /\ Uncaught(RemoteError("list_tests"))
                          /\ UNCHANGED <<tests, budget>>
                       \/ \E n \in 0..budget.tests :
                             /\ tests' = n
                             /\ budget' = [budget EXCEPT !.tests = @ - n]
                             /\ pc' = "next_test"
                             /\ UNCHANGED <<error, exit_code>>
               ELSE /\ NoIssue
                    /\ UNCHANGED <<pc, tests, budget, error, exit_code>>
    /\ UNCHANGED <<uploadVars, runVars, jobs, job_name, test_no, types, artifacts,
                   is_valid_test, logcat_paths, encounters, visited, zip_invalid,
                   files, dirs, report_in, reports, path_yaml, bad_files>>

\* lines 128-130: the next test of the suite.
NextTest ==
    /\ pc = "next_test"
    /\ IF tests = 0
       THEN /\ pc' = "next_suite"
            /\ UNCHANGED <<tests, test_no, types, zip_invalid>>
       ELSE /\ tests' = tests - 1
            /\ test_no' = test_no + 1
            /\ types' = ArtifactTypes
            /\ zip_invalid' = FALSE
            /\ pc' = "next_type"
    /\ NoIssue
    /\ UNCHANGED <<uploadVars, runVars, jobs, job_name, suites, artifacts,
                   is_valid_test, logcat_paths, encounters, visited, files, dirs,
                   report_in, reports, budget, error, exit_code, path_yaml,
                   suite_name, bad_files>>

\* lines 130-135: the next artifact type of the test and its listing.
NextType ==
    /\ pc = "next_type"
    /\ IF types = <<>>
       THEN /\ pc' = "next_test"
            /\ NoIssue
            /\ UNCHANGED <<types, artifacts, is_valid_test, report_in, budget,
                           error, exit_code>>
       ELSE /\ Issue("list_artifacts", 0)
            /\ \/ /\ Uncaught(RemoteError("list_artifacts"))
                  /\ UNCHANGED <<types, artifacts, is_valid_test, report_in,
                                 budget>>
               \/ \E n \in 0..budget.artifacts :
                     /\ artifacts' = n
                     /\ budget' = [budget EXCEPT !.artifacts = @ - n]
                     /\ is_valid_test' = FlagAtListing(is_valid_test)
                     /\ report_in' = <<>>
                     /\ pc' = "next_artifact"
                     /\ UNCHANGED <<types, error, exit_code>>
    /\ UNCHANGED <<uploadVars, runVars, jobs, job_name, suites, tests, test_no,
                   logcat_paths, encounters, visited, zip_invalid, files, dirs,
                   reports, path_yaml, suite_name, bad_files>>

\* The visit of an artifact, as the history variables keep it.
Met(artifact) ==
    IF artifact.extension = "logcat"
    THEN Append(encounters,
                [path |-> SavePath(job_name, Filename(artifact)),
                 flag |-> is_valid_test])
    ELSE encounters

Visit(artifact) ==
    /\ encounters' = Met(artifact)
    /\ visited' = visited \cup {<<job_name, artifact.extension>>}

\* lines 136-149: the next artifact of the listing.  The listing is read
\* one artifact at a time, so the artifact is drawn when it is visited.
NextArtifact ==
    /\ pc = "next_artifact"
    /\ IF artifacts = 0
       THEN /\ types' = Tail(types)
            /\ pc' = "next_type"
            /\ NoIssue
            /\ UNCHANGED <<artifacts, is_valid_test, logcat_paths, encounters,
                           visited, zip_invalid, files, bad_files, report_in,
                           reports, error, exit_code>>
       ELSE \E artifact \in RemoteArtifacts :
            LET filename == Filename(artifact)
                artifact_save_path == SavePath(job_name, filename)
            IN  /\ artifacts' = artifacts - 1
                /\ UNCHANGED types
                /\ IF ~IsWanted(filename)
                   THEN /\ Visit(artifact)
                        /\ NoIssue
                        /\ UNCHANGED <<pc, is_valid_test, logcat_paths, files,
                                       bad_files, report_in, reports,
                                       zip_invalid, error, exit_code>>
                   ELSE /\ logcat_paths' =
                               IF IsRecorded(is_valid_test, filename)
                               THEN Append(logcat_paths, artifact_save_path)
                               ELSE logcat_paths
                        \* line 145 opens the file before line 146 gets it
                        /\ files' = files \cup {artifact_save_path}
                        /\ Issue("download", 0)
                        /\ \/ /\ Uncaught(RemoteError("download"))
                              \* the file was opened and nothing written to it
                              /\ bad_files' = bad_files \cup {artifact_save_path}
                              /\ Visit(artifact)
                              /\ UNCHANGED <<is_valid_test, report_in, reports,
                                             zip_invalid>>
                           \* lines 146-147: the answer is not tested; the
                           \* body of an answer that is not ok is written too
                           \/ /\ bad_files' = bad_files \cup {artifact_save_path}
                              /\ Visit(artifact)
                              /\ IF IsZip(filename)
                                 THEN \* line 162: it is not a zip file
                                      Uncaught([kind |-> "BadZipFile",
                                                text |-> "File is not a zip file"])
                                 ELSE UNCHANGED <<pc, error, exit_code>>
                              /\ UNCHANGED <<is_valid_test, report_in, reports,
                                             zip_invalid>>
                           \/ /\ IsZip(filename)
                              /\ ~artifact.has_report
                              /\ bad_files' = bad_files \ {artifact_save_path}
                              \* line 166: os.rename of a file that is not there
                              /\ Uncaught([kind |-> "FileNotFoundError",
                                           text |-> "junitreport.xml"])
                              /\ Visit(artifact)
                              /\ UNCHANGED <<is_valid_test, report_in, reports,
                                             zip_invalid>>
                           \/ /\ IsZip(filename)
                              /\ artifact.has_report
                              /\ bad_files' = bad_files \ {artifact_save_path}
                              /\ report_in' = artifact.report
                              /\ reports' = WriteReport(reports, job_name,
                                     unzip_and_copy(artifact.report, job_name).written)
                              /\ Visit(artifact)
                              /\ IF unzip_and_copy(artifact.report, job_name).error
                                        = NoValue
                                 THEN /\ is_valid_test' = FlagAfterZip(is_valid_test,
                                             unzip_and_copy(artifact.report,
                                                            job_name).result)
                                      /\ zip_invalid' =
                                             (zip_invalid \/
                                              ~unzip_and_copy(artifact.report,
                                                              job_name).result)
                                      /\ UNCHANGED <<pc, error, exit_code>>
                                 ELSE /\ Uncaught([kind |-> DecodeError,
                                                   text |-> "junitreport.xml"])
                                      /\ UNCHANGED <<is_valid_test, zip_invalid>>
                           \/ /\ ~IsZip(filename)
                              /\ bad_files' = bad_files \ {artifact_save_path}
                              /\ Visit(artifact)
                              /\ UNCHANGED <<pc, is_valid_test, report_in,
                                             reports, zip_invalid, error,
                                             exit_code>>
    /\ UNCHANGED <<uploadVars, runVars, jobs, job_name, suites, suite_name,
                   tests, test_no, dirs, budget, path_yaml>>

\* lines 83-84 and 154-157: save_logcat_path, then the script ends.
SaveLogcatPath ==
    /\ pc = "save"
    /\ path_yaml' = [writes |-> Min(path_yaml.writes + 1, MaxCnt),
                     paths |-> logcat_paths]
    /\ pc' = "done"
    /\ exit_code' = 0
    /\ NoIssue
    /\ UNCHANGED <<uploadVars, runVars, downloadVars, error>>

----------------------------------------------------------------------------
(* The script.                                                             *)

Init ==
    /\ pc = "create_upload"
    /\ which = 1
    /\ response = NoRecord
    /\ upload_arn = NoValue
    /\ arns = <<NoValue, NoValue>>
    /\ observed = <<NoValue, NoValue>>
    /\ seen_failed = FALSE
    /\ run_request = NoRequest
    /\ run_arn = NoValue
    /\ state = NoValue
    /\ error = NoError
    /\ caught = NoError
    /\ exit_code = -1
    /\ cnt = [k \in Counted |-> 0]
    /\ after_failed = {}
    /\ after_run_exc = {}
    /\ jobs = 0
    /\ job_name = NoValue
    /\ suites = 0
    /\ suite_name = NoValue
    /\ bad_files = {}
    /\ tests = 0
    /\ test_no = 0
    /\ types = <<>>
    /\ artifacts = 0
    /\ is_valid_test = TRUE
    /\ logcat_paths = <<>>
    /\ encounters = <<>>
    /\ visited = {}
    /\ zip_invalid = FALSE
    /\ files = {}
    /\ dirs = {}
    /\ report_in = <<>>
    /\ reports = {}
    /\ path_yaml = [writes |-> 0, paths |-> <<>>]
    /\ budget = [suites |-> MaxSuites, tests |-> MaxTests,
                 artifacts |-> MaxArtifacts]

Next ==
    \/ CreateUpload
    \/ PutFile
    \/ UploadCheck
    \/ GetUpload
    \/ ScheduleRun
    \/ GetRun
    \/ RunSleep
    \/ StopRun
    \/ ListJobs
    \/ NextJob
    \/ NextSuite
    \/ NextTest
    \/ NextType
    \/ NextArtifact
    \/ SaveLogcatPath

Spec == Init /\ [][Next]_vars

----------------------------------------------------------------------------
(* unzip_and_copy on its own: any report of up to MaxLen tokens, in the    *)
(* directory of any device.                                                *)

DeviceNames == JobNames \cup {SkipMark, TestName}

InitZip ==
    /\ pc = "unzip"
    /\ job_name \in DeviceNames
    /\ report_in \in SeqsUpTo(Alphabet, MaxLen)
    /\ which = 1
    /\ response = NoRecord
    /\ upload_arn = NoValue
    /\ arns = <<NoValue, NoValue>>
    /\ observed = <<NoValue, NoValue>>
    /\ seen_failed = FALSE
    /\ run_request = NoRequest
    /\ run_arn = NoValue
    /\ state = NoValue
    /\ error = NoError
    /\ caught = NoError
    /\ exit_code = -1
    /\ cnt = [k \in Counted |-> 0]
    /\ after_failed = {}
    /\ after_run_exc = {}
    /\ jobs = 0
    /\ suites = 0
    /\ suite_name = NoValue
    /\ bad_files = {}
    /\ tests = 0
    /\ test_no = 0
    /\ types = <<>>
    /\ artifacts = 0
    /\ is_valid_test = TRUE
    /\ logcat_paths = <<>>
    /\ encounters = <<>>
    /\ visited = {}
    /\ zip_invalid = FALSE
    /\ files = {}
    /\ dirs = {}
    /\ reports = {}
    /\ path_yaml = [writes |-> 0, paths |-> <<>>]
    /\ budget = [suites |-> 0, tests |-> 0, artifacts |-> 0]

\* lines 160-179 on the report report_in in the directory of job_name.
Unzip ==
    /\ pc = "unzip"
    /\ reports' = WriteReport(reports, job_name,
                              unzip_and_copy(report_in, job_name).written)
    /\ IF unzip_and_copy(report_in, job_name).error = NoValue
       THEN /\ is_valid_test' = unzip_and_copy(report_in, job_name).result
            /\ pc' = "unzipped"
            /\ UNCHANGED <<error, exit_code>>
       ELSE /\ Uncaught([kind |-> DecodeError, text |-> "junitreport.xml"])
            /\ UNCHANGED is_valid_test
    /\ NoIssue
    /\ UNCHANGED <<uploadVars, runVars, jobs, job_name, suites,
                   tests, test_no, types, artifacts, logcat_paths, encounters,
                   visited, zip_invalid, files, dirs, report_in, budget,
                   path_yaml, suite_name, bad_files>>

NextZip == Unzip

SpecZip == InitZip /\ [][NextZip]_vars

----------------------------------------------------------------------------
(* The script up to the end of the run polling (line 74), with the         *)
(* fairness of a sequential process: while the script has a next step, it  *)
(* takes it.  What the remote service answers stays free.                  *)

NextPoll ==
    \/ CreateUpload
    \/ PutFile
    \/ UploadCheck
    \/ GetUpload
    \/ ScheduleRun
    \/ GetRun
    \/ RunSleep
    \/ StopRun

FairSpec == Init /\ [][NextPoll]_vars /\ WF_vars(NextPoll)

----------------------------------------------------------------------------
(* Properties.                                                             *)

Issued(op) == cnt[<<op, 0>>] > 0
Range(seq) == {seq[i] : i \in 1..Len(seq)}
Last(seq) == seq[Len(seq)]
Ended == pc \in {"done", "exited", "uncaught"}

\* C1: schedule_run is issued only once both uploads have been seen
\* SUCCEEDED (none still in progress, none seen FAILED), and its request
\* names exactly the two arns the uploads returned, the application first.
C1_ScheduleAfterBothSucceeded ==
    Issued("schedule_run") =>
        /\ observed[1] = "SUCCEEDED"
        /\ observed[2] = "SUCCEEDED"
        /\ ~seen_failed
        /\ arns = <<UploadArn(1), UploadArn(2)>>
        /\ run_request = RunRequest(UploadArn(1), UploadArn(2))

C1_Witness ==
    /\ Issued("schedule_run")
    /\ run_arn \in RunArns
    /\ run_request = RunRequest("upload:1", "upload:2")

\* C2: whenever an upload is seen FAILED, the error raised is the Exception
\* of line 108 and carries the message of the record if it has one and its
\* metadata otherwise; the script ends there and issues nothing more.
C2_FailedRaisesMessageOrMetadata ==
    seen_failed =>
        /\ pc = "uncaught"
        /\ error.kind = "Exception"
        /\ error.text = (IF response.message # NoValue THEN response.message
                         ELSE response.metadata)
        /\ error.text # NoValue
        /\ after_failed = {}

\* C3: once get_run has raised, stop_run is issued for the run and the
\* process ends with exit code 1; nothing else is issued (no list_jobs,
\* no listing, no download) and path.yaml is not written.
C3_GetRunRaisesStopsAndExits ==
    caught # NoError =>
        /\ pc \in {"stop_run", "exited", "uncaught"}
        /\ after_run_exc \subseteq {"stop_run"}
        /\ pc # "stop_run" =>
              /\ after_run_exc = {"stop_run"}
              /\ cnt[<<"stop_run", 0>>] = 1
              /\ exit_code = 1
        /\ ~Issued("list_jobs")
        /\ files = {}
        /\ dirs = {}
        /\ path_yaml.writes = 0

C3_Witness ==
    /\ caught = RemoteError("get_run")
    /\ pc = "exited"
    /\ exit_code = 1
    /\ after_run_exc = {"stop_run"}
    /\ run_arn \in RunArns

\* C4: within one test, once the extraction of a zip has reported invalid,
\* no .logcat artifact of that test is added to the log-path list, in
\* whatever listing (FILE, SCREENSHOT, LOG) of the test it comes.
C4_InvalidZipSilencesTheTest ==
    [][(zip_invalid /\ zip_invalid') => logcat_paths' = logcat_paths]_vars

\* C5: the log-path list is exactly the paths of the .logcat artifacts
\* visited while the flag was true, in the order of the visits; no entry is
\* the path of a zip; path.yaml, once written, holds that list.
Flagged(e) == e.flag
C5_ListIsFlaggedLogcatsInOrder ==
    LET recorded == SelectSeq(encounters, Flagged)
    IN  /\ Len(logcat_paths) = Len(recorded)
        /\ \A i \in 1..Len(recorded) : logcat_paths[i] = recorded[i].path
        /\ \A p \in Range(logcat_paths) : Last(p) = "logcat"
        /\ pc = "done" => path_yaml.paths = logcat_paths

C5_Witness ==
    /\ pc = "done"
    /\ Len(logcat_paths) = 1
    /\ Len(encounters) = 2
    /\ encounters[1].flag
    /\ ~encounters[2].flag

\* C6 as stated: once an upload has been requested and its bytes sent,
\* upload_df_file ends, by returning or by raising.
UploadEnded == pc \notin {"upload_check", "upload_sleep"}
C6_UploadAlwaysEnds == (pc = "upload_check") ~> UploadEnded

\* C6, amended: upload_df_file returns only with the arn of the upload and
\* SUCCEEDED as the last status seen; on FAILED it raises at once, the
\* Exception with the message or, failing that, the metadata of the record,
\* KeyError when the record has neither; and if the service answers with a
\* status still in progress only finitely often, upload_df_file ends.
UploadReturned(f) == arns[f] # NoValue
C6_UploadOutcome ==
    /\ \A f \in {1, 2} :
          UploadReturned(f) => (observed[f] = "SUCCEEDED" /\ arns[f] = UploadArn(f))
    /\ seen_failed =>
          /\ pc = "uncaught"
          /\ observed[which] = "FAILED"
          /\ ~UploadReturned(which)
          /\ error = (IF response.message # NoValue
                      THEN [kind |-> "Exception", text |-> response.message]
                      ELSE IF response.metadata # NoValue
                      THEN [kind |-> "Exception", text |-> response.metadata]
                      ELSE [kind |-> "KeyError", text |-> "metadata"])
C6_UploadEndsIfStatusSettles ==
    /\ []C6_UploadOutcome
    /\ (<>[](pc # "upload_sleep")) => ((pc = "upload_check") ~> UploadEnded)

C6_Witness ==
    /\ seen_failed
    /\ which = 2
    /\ UploadReturned(1)
    /\ error = [kind |-> "Exception", text |-> "meta"]

\* C7: when schedule_run returns, the script holds the arn of the run; the
\* polling loop is left normally only on COMPLETED or ERRORED, and is left
\* as soon as one of them is seen; and if get_run answers with another
\* status only finitely often, the loop ends.
RunLoopLeft == pc \in {"list_jobs", "stop_run", "exited", "uncaught"}
C7_RunLoopSafety ==
    /\ pc \in {"get_run", "run_sleep", "list_jobs"} => run_arn \in RunArns
    /\ pc = "list_jobs" => state \in {"COMPLETED", "ERRORED"}
    /\ pc = "run_sleep" => state \in RunStatuses \ {"COMPLETED", "ERRORED"}
C7_RunPollingEnds ==
    /\ []C7_RunLoopSafety
    /\ (<>[](pc # "run_sleep")) => ((pc = "get_run") ~> RunLoopLeft)

C7_Witness ==
    /\ pc = "list_jobs"
    /\ state = "ERRORED"
    /\ run_arn \in RunArns
    /\ caught = NoError

\* C8: the exit code is 0 when the script runs to its end (the artifacts
\* downloaded, path.yaml written) and 1 when the run polling has failed.
C8_ExitCodes ==
    /\ pc = "done" => (exit_code = 0 /\ path_yaml.writes = 1)
    /\ (caught # NoError /\ Ended) => exit_code = 1
    /\ exit_code = 0 => (pc = "done" /\ caught = NoError /\ error = NoError)

C8_Witness ==
    /\ pc = "done"
    /\ exit_code = 0
    /\ path_yaml.writes = 1
    /\ path_yaml.paths # <<>>
    /\ files # {}

\* C9: unzip_and_copy returns false exactly when the report as read, before
\* the substitution, holds skipped="2"; what the rewritten report holds
\* does not matter.
C9_ResultFromOriginalContent ==
    pc = "unzipped" =>
        (is_valid_test = FALSE <=>
            \E i \in 1..Len(read(report_in)) : read(report_in)[i] = SkipMark)

\* The report has no skipped="2" and is found valid, though the name of the
\* device puts one into the rewritten report.
C9_Witness ==
    /\ pc = "unzipped"
    /\ is_valid_test
    /\ \E r \in reports : r[2] # report_in /\ SkipMark \in Range(r[2])

\* C10: only artifacts whose file name ends in .logcat or .zip are
\* downloaded or recorded; for a job none of whose artifacts is one, no file
\* is written under the directory of the job and the log-path list has no
\* entry there.
WantedExtensions == {"logcat", "zip"}
C10_OnlyLogcatAndZip ==
    /\ \A p \in files \cup Range(logcat_paths) : Last(p) \in WantedExtensions
    /\ \A j \in JobNames :
          (\A x \in WantedExtensions : <<j, x>> \notin visited) =>
              \A p \in files \cup Range(logcat_paths) : p[1] # j

C10_Witness ==
    /\ pc = "done"
    /\ visited = {<<"Pixel", "mp4">>, <<"Galaxy", "logcat">>}
    /\ dirs = {"Pixel", "Galaxy"}
    /\ Len(path_yaml.paths) = 1

\* The whole-word occurrences, by what may stand next to them.
NonWord == {" ", "\r", "\n", "0xFF"}
WholeWords(content) ==
    {i \in 1..Len(content) :
        /\ content[i] = "TestShopping"
        /\ (i > 1 => content[i - 1] \in NonWord \cup {"skipped=\"2\""})
        /\ (i < Len(content) => content[i + 1] \in NonWord)}
\* Where token i of the content begins in the rewritten report.
Shifted(content, i) ==
    i + 2 * Cardinality({j \in WholeWords(content) : j < i})
\* text is content with each whole-word TestShopping replaced by
\* "AppiumTest " and the name of the device, and nothing else changed.
Rewritten(content, text, device_name) ==
    /\ Len(text) = Len(content) + 2 * Cardinality(WholeWords(content))
    /\ \A i \in 1..Len(content) :
          LET k == Shifted(content, i)
          IN  IF i \in WholeWords(content)
              THEN /\ text[k] = "AppiumTest"
                   /\ text[k + 1] = " "
                   /\ text[k + 2] = device_name
              ELSE text[k] = content[i]
\* The file with the line ends of a text: the CR of a CR LF dropped, every
\* other CR turned into LF.
AsRead(file) ==
    LET kept == {i \in 1..Len(file) :
                    ~(file[i] = "\r" /\ i < Len(file) /\ file[i + 1] = "\n")}
        nth(k) == CHOOSE i \in kept : Cardinality({j \in kept : j <= i}) = k
    IN  [k \in 1..Cardinality(kept) |->
            IF file[nth(k)] = "\r" THEN "\n" ELSE file[nth(k)]]

\* C11: once unzip_and_copy has put a report into report/, the file there
\* is the report of the zip with every whole-word TestShopping replaced by
\* "AppiumTest " and the name of the device, and nothing else changed; a
\* TestShopping that is part of a longer word (TestShoppingCart,
\* CartTestShopping) stays.
C11_ReportRewritten ==
    pc # "unzip" =>
        \E r \in reports :
            /\ r[1] = <<job_name, " appium junitreport.xml">>
            /\ Rewritten(report_in, r[2], job_name)

\* C11, amended: when the report of the zip is UTF-8, the file in report/
\* is its text as read in text mode (CR LF and CR become LF) with every
\* whole-word TestShopping replaced and nothing else changed; when it is
\* not, UnicodeDecodeError is raised and the file in report/ is the copy
\* of the report, unchanged.
C11_ReportRewrittenAsRead ==
    /\ pc = "unzipped" =>
          /\ "0xFF" \notin Range(report_in)
          /\ \E r \in reports :
                /\ r[1] = <<job_name, " appium junitreport.xml">>
                /\ Rewritten(AsRead(report_in), r[2], job_name)
                /\ "\r" \notin Range(r[2])
    /\ pc = "uncaught" =>
          /\ "0xFF" \in Range(report_in)
          /\ error.kind = "UnicodeDecodeError"
          /\ <<<<job_name, " appium junitreport.xml">>, report_in>> \in reports

\* A report with a whole-word TestShopping, a CR and a TestShoppingCart.
C11_Witness ==
    /\ pc = "unzipped"
    /\ job_name = "Pixel"
    /\ report_in = <<"TestShopping", "\r", "TestShopping", "Cart">>
    /\ <<<<"Pixel", " appium junitreport.xml">>,
         <<"AppiumTest", " ", "Pixel", "\n", "TestShopping", "Cart">>>> \in reports

----------------------------------------------------------------------------
\* C12: nothing is retried and every failure is final: create_upload and
\* the PUT are issued at most once for each file and schedule_run at most
\* once; after a FAILED upload or an exception nobody catches no request
\* is issued any more, after an exception of the run polling only
\* stop_run is, and a refused PUT raises before the status of the upload
\* was looked at once, so before any get_upload.
C12_NoRetryFailureIsFinal ==
    /\ \A f \in {1, 2} : /\ cnt[<<"create_upload", f>>] <= 1
                         /\ cnt[<<"put", f>>] <= 1
    /\ cnt[<<"schedule_run", 0>>] <= 1
    /\ after_failed = {}
    /\ after_run_exc \subseteq {"stop_run"}
    /\ cnt[<<"stop_run", 0>>] <= 1
    /\ error # NoError => pc = "uncaught"
    /\ error.text = "Couldn't upload" =>
          /\ observed[which] = NoValue
          /\ response.status \in UploadStatuses
          /\ cnt[<<"put", which>>] = 1

C12_Witness ==
    /\ pc = "uncaught"
    /\ error = [kind |-> "Exception", text |-> "Couldn't upload"]
    /\ which = 2
    /\ cnt[<<"create_upload", 1>>] = 1
    /\ cnt[<<"put", 1>>] = 1
    /\ cnt[<<"put", 2>>] = 1
    /\ observed[2] = NoValue

\* C13: stop_run is issued at most once, only after schedule_run returned
\* the run and only for an exception raised inside the run polling loop;
\* never once the run was seen COMPLETED or ERRORED, and never for a
\* failure of an upload, of schedule_run or of the download of the
\* artifacts, which go uncaught.
C13_StopRunOnlyForPollingFailure ==
    /\ cnt[<<"stop_run", 0>>] <= 1
    /\ (Issued("stop_run") \/ pc = "stop_run") =>
          /\ Issued("schedule_run")
          /\ run_arn \in RunArns
          /\ caught = RemoteError("get_run")
          /\ state \notin {"COMPLETED", "ERRORED"}
          /\ ~seen_failed
          /\ ~Issued("list_jobs")
    /\ (error # NoError /\ error # RemoteError("stop_run")) =>
          /\ pc = "uncaught"
          /\ caught = NoError
          /\ ~Issued("stop_run")
    /\ (state \in {"COMPLETED", "ERRORED"} \/ seen_failed) =>
          /\ caught = NoError
          /\ ~Issued("stop_run")

C13_Witness ==
    /\ pc = "exited"
    /\ state = "RUNNING"
    /\ caught = RemoteError("get_run")
    /\ cnt[<<"stop_run", 0>>] = 1
    /\ cnt[<<"schedule_run", 0>>] = 1

\* C14: neither polling loop has a time limit.  As long as the status in
\* hand stays in progress and no request raises, the upload loop goes on
\* polling and schedule_run is never issued; as long as the run stays
\* unfinished and no request raises, the run loop goes on polling and
\* list_jobs is never reached.
C14_PollsForever ==
    /\ (<>[](response.status \in {"INITIALIZED", "PROCESSING"}) /\ [](error = NoError))
          => ([]<>(pc = "upload_sleep") /\ [](~Issued("schedule_run")))
    /\ (<>[](state \in {"PENDING", "RUNNING", "STOPPING"})
           /\ [](error = NoError) /\ [](caught = NoError))
          => ([]<>(pc = "run_sleep") /\ [](pc # "list_jobs"))

C14_Witness ==
    /\ pc = "run_sleep"
    /\ state = "STOPPING"
    /\ caught = NoError
    /\ error = NoError

\* C15: within one listing of artifacts the flag is the result of the zip
\* extracted last (true while none was): a valid zip after an invalid one
\* puts the flag up again, and a path once on the log-path list stays on
\* it.
IsPrefix(s, t) == Len(s) <= Len(t) /\ SubSeq(t, 1, Len(s)) = s

C15_FlagIsLastZipResult ==
    /\ [](pc = "next_artifact" =>
             is_valid_test = IF report_in = <<>> THEN TRUE
                             ELSE SkipMark \notin Range(report_in))
    /\ [][IsPrefix(logcat_paths, logcat_paths')]_vars

\* An invalid zip, a .logcat left out, then a valid zip, in the first
\* listing of the first test.
C15_Witness ==
    /\ pc = "next_artifact"
    /\ test_no = 1
    /\ types = ArtifactTypes
    /\ zip_invalid
    /\ Len(encounters) = 1
    /\ ~encounters[1].flag
    /\ report_in = <<TestName>>
    /\ is_valid_test

\* C16: only a suite named exactly Tests Suite has its tests and their
\* artifacts listed: the visit of any other suite changes nothing (no
\* request with an outcome, nothing downloaded, nothing recorded), and
\* tests, listings and artifacts are visited inside a Tests Suite only;
\* the directory of a job is made whatever its suites are.
C16_OnlyTestsSuiteIsListed ==
    /\ [](pc \in {"next_test", "next_type", "next_artifact"} =>
             suite_name = "Tests Suite")
    /\ [](job_name # NoValue => job_name \in dirs)
    /\ [][(pc = "next_suite" /\ suites' = suites - 1
                             /\ suite_name' # "Tests Suite") =>
            /\ pc' = "next_suite"
            /\ UNCHANGED <<tests, test_no, types, artifacts, budget, files,
                           bad_files, logcat_paths, encounters, visited,
                           reports, cnt, error, exit_code, dirs>>]_vars
    /\ [][(pc = "next_job" /\ jobs' = jobs - 1) => job_name' \in dirs']_vars

\* A run of one job whose suites were none but a Setup Suite.
C16_Witness ==
    /\ pc = "done"
    /\ suite_name = "Setup Suite"
    /\ dirs = {"Pixel"}
    /\ budget.suites = MaxSuites - 1
    /\ budget.tests = MaxTests
    /\ test_no = 0
    /\ files = {}
    /\ logcat_paths = <<>>

\* C17: the flag does not pass from one test to another: every listing
\* starts with the flag up, and a .logcat is left out only when a zip of
\* the test being visited was found invalid.
C17_FlagDoesNotCarryOver ==
    /\ [][(pc = "next_type" /\ pc' = "next_artifact") => is_valid_test']_vars
    /\ [][(Len(encounters') > Len(encounters) /\ ~Last(encounters').flag) =>
            (zip_invalid /\ SkipMark \in Range(report_in))]_vars

\* The job Pixel had an invalid zip, and a .logcat of the job Galaxy,
\* visited after it, is recorded.
C17_Witness ==
    /\ job_name = "Galaxy"
    /\ dirs = {"Pixel", "Galaxy"}
    /\ \E r \in reports : r[1][1] = "Pixel" /\ SkipMark \in Range(r[2])
    /\ logcat_paths = <<SavePath("Galaxy", <<"DEVICE_LOG", "_", "Logcat", ".", "logcat">>)>>
    /\ Len(encounters) = 1
    /\ encounters[1].flag

\* C18: path.yaml is written at most once, and only when the run was seen
\* finished and every job, suite, test and artifact was gone through with
\* nothing failing: not after an exception, and not when a download
\* failed, so that every path in it is the path of a file that holds its
\* artifact.
C18_PathYamlOnlyAfterFlawlessRun ==
    /\ path_yaml.writes <= 1
    /\ (error # NoError \/ caught # NoError \/ seen_failed) => path_yaml.writes = 0
    /\ path_yaml.writes > 0 =>
          /\ pc = "done"
          /\ state \in {"COMPLETED", "ERRORED"}
          /\ jobs = 0 /\ suites = 0 /\ tests = 0 /\ types = <<>>
          /\ path_yaml.paths = logcat_paths
          /\ bad_files = {}
          /\ Range(path_yaml.paths) \subseteq files \ bad_files

\* C19: a run seen ERRORED is treated as one seen COMPLETED: the loop is
\* left for list_jobs, stop_run is not issued and no handler runs; the
\* script then goes through the artifacts and, when it gets to its end,
\* has written path.yaml and ends with exit code 0.
C19_ErroredLikeCompleted ==
    /\ [](state = "ERRORED" =>
             /\ ~Issued("stop_run")
             /\ caught = NoError
             /\ pc \notin {"get_run", "run_sleep", "stop_run", "exited"})
    /\ [][(pc = "get_run" /\ pc' # pc /\ state' \in {"COMPLETED", "ERRORED"}) =>
            (pc' = "list_jobs" /\ caught' = NoError)]_vars
    /\ [](pc = "done" =>
             /\ state \in {"COMPLETED", "ERRORED"}
             /\ path_yaml = [writes |-> 1, paths |-> logcat_paths]
             /\ exit_code = 0)

C19_Witness ==
    /\ pc = "done"
    /\ state = "ERRORED"
    /\ cnt[<<"list_jobs", 0>>] = 1
    /\ cnt[<<"stop_run", 0>>] = 0
    /\ logcat_paths # <<>>
    /\ path_yaml = [writes |-> 1, paths |-> logcat_paths]
    /\ exit_code = 0

\* C20: no path stands twice on the log-path list, whatever the run:
\* also when several tests or several listings of one job hold a .logcat
\* artifact of the same type, name and extension.
C20_PathsDistinct ==
    pc \in {"save", "done"} =>
        \A i, j \in 1..Len(logcat_paths) :
            logcat_paths[i] = logcat_paths[j] => i = j
====
